---- MODULE Spec2Model ----
(***************************************************************************)
(* A model of package csv (goulash/csv): Marshal and the encoders it       *)
(* dispatches to.  Marshal is a pure function of its argument, so the      *)
(* state is the argument and the outcome of the call; the Go functions are *)
(* operators that are computed the way the code computes them.             *)
(*                                                                         *)
(* Bytes are sequences of one-character strings.  A Go panic that leaves   *)
(* Marshal is an outcome with panic = TRUE.                                *)
(***************************************************************************)
EXTENDS Integers, Sequences, FiniteSets

VARIABLES input, pc, result

vars == <<input, pc, result>>

(***************************************************************************)
(* Bounds of the model.                                                    *)
(***************************************************************************)
\* longest Header()/Record() of a value
MaxFields == 2
\* longest slice or array
MaxLen == 2
\* deepest chain of pointers without methods around a value
MaxDepth == 2

(***************************************************************************)
(* Strings and bytes.                                                      *)
(***************************************************************************)
Comma == ","
NL == "\n"

\* the field strings the modelled values use: the empty string, plain
\* strings, and strings that a quoting encoder would have to quote
Fields == {<<>>, <<"a">>, <<Comma>>, <<NL>>}

\* a nil []byte, as opposed to an empty one
NilBytes == <<"nil">>

RECURSIVE Repeat(_, _)
Repeat(f, k) == IF k = 0 THEN <<>> ELSE <<f>> \o Repeat(f, k - 1)

RowsOver(F, lo, hi) == UNION {[1..k -> F] : k \in lo..hi}

(***************************************************************************)
(* Types, as reflect sees them.  A type is a sequence of tokens: a named   *)
(* type is one token, "*", "[]" and "[n]" prefix the element type.         *)
(***************************************************************************)
NilType == <<"nil">>
RecorderPtr == <<"*recorder">>
RecorderB == <<"*recorderB">>
MarshalerPtr == <<"*marshaler">>
BothPtr == <<"*both">>
IntType == <<"int">>
RecorderIface == <<"Recorder">>
MarshalerIface == <<"Marshaler">>
EmptyIface == <<"interface{}">>

marshalerType == "Marshaler"
recorderType == "Recorder"

Kind(t) ==
    CASE Head(t) = "*" -> "ptr"
      [] Head(t) = "[]" -> "slice"
      [] Head(t) = "[n]" -> "array"
      [] t \in {RecorderPtr, RecorderB, MarshalerPtr, BothPtr} -> "ptr"
      [] t \in {RecorderIface, MarshalerIface, EmptyIface} -> "interface"
      [] OTHER -> "int"

Elem(t) == Tail(t)

\* reflect.Type.Implements, from the method sets: *recorder, *recorderB and
\* *both have Header and Record, *marshaler and *both have MarshalCSV, an
\* interface type implements itself, and a slice, an array, an int and a
\* pointer to a pointer, to an interface or to a slice have no methods
Implements(t, iface) ==
    IF iface = recorderType
    THEN t \in {RecorderPtr, RecorderB, BothPtr, RecorderIface}
    ELSE t \in {MarshalerPtr, BothPtr, MarshalerIface}

(***************************************************************************)
(* Values.                                                                 *)
(***************************************************************************)
NilV == [kind |-> "nil", type |-> NilType]
IntV == [kind |-> "int", type |-> IntType]
\* a value with the Recorder methods: fault "nil" is a nil pointer, whose
\* methods panic with a runtime error, and fault "panic" a value whose
\* methods panic with a value that is no error
RecV(t, f, h, r) ==
    [kind |-> "rec", type |-> t, fault |-> f, header |-> h, record |-> r]
MarV(bs, e) == [kind |-> "mar", type |-> MarshalerPtr, bs |-> bs, err |-> e]
BothV(bs, e, h, r) ==
    [kind |-> "both", type |-> BothPtr, fault |-> "none", bs |-> bs, err |-> e,
     header |-> h, record |-> r]
PtrV(t, n, e) == [kind |-> "ptr", type |-> <<"*">> \o t, isnil |-> n, elem |-> e]
SeqV(k, et, es) == [kind |-> "seq", type |-> <<k>> \o et, elems |-> es]

TypeOf(v) == v.type

(***************************************************************************)
(* Errors and outcomes.                                                    *)
(***************************************************************************)
Err(name, a, b) == [name |-> name, a |-> a, b |-> b]
NoErr == Err("nil", <<>>, <<>>)
ErrNoData == Err("csv: no data", <<>>, <<>>)
ErrCannotMarshal(t) == Err("csv: cannot marshal %s", t, <<>>)
ErrElemType(t) ==
    Err("csv: slice element type %s does not implement Recorder", t, <<>>)
ErrNotRecorder(t) ==
    Err("csv: slice element %T does not implement Recorder", t, <<>>)
ErrExpecting(t, rt) ==
    Err("csv: expecting slice element type %s, got %s", t, rt)
\* the runtime's own panics: their values are errors (runtime.Error)
ErrRuntime(what) == Err("runtime error", <<what>>, <<>>)
\* a method called on the nil reflect.Type
ErrNilType == ErrRuntime("nil pointer dereference")
\* reflect's panic for Interface() of the zero Value (*reflect.ValueError)
ErrZeroValue == Err("reflect: call of reflect.Value.Interface on zero Value", <<>>, <<>>)
\* an error a caller's MarshalCSV returns
UserErr == Err("user", <<>>, <<>>)
\* the value of a panic(x) in a caller's method, x no error
NotAnError == Err("panic", <<"not an error">>, <<>>)

Ret(bs, e, via, tr) ==
    [panic |-> FALSE, pval |-> NoErr, bytes |-> bs, err |-> e, via |-> via,
     trace |-> tr]
Crash(p, via, tr) ==
    [panic |-> TRUE, pval |-> p, bytes |-> NilBytes, err |-> NoErr, via |-> via,
     trace |-> tr]

(***************************************************************************)
(* Calls of the methods of a value.  A method of a nil *recorder reads a   *)
(* field through nil and panics.                                           *)
(***************************************************************************)
NoPanic(x) == [panic |-> FALSE, pval |-> NoErr, val |-> x]
Panic(e) == [panic |-> TRUE, pval |-> e, val |-> <<>>]

Header(v) ==
    CASE v.fault = "nil" -> Panic(ErrRuntime("nil pointer dereference"))
      [] v.fault = "panic" -> Panic(NotAnError)
      [] OTHER -> NoPanic(v.header)

Record(v) ==
    CASE v.fault = "nil" -> Panic(ErrRuntime("nil pointer dereference"))
      [] v.fault = "panic" -> Panic(NotAnError)
      [] OTHER -> NoPanic(v.record)

MarshalCSV(v) == [bs |-> v.bs, err |-> v.err]

(***************************************************************************)
(* writeRecord: the fields but the last, each followed by a comma, then    *)
(* the last field and a newline.  slice[:m] panics when m = -1.            *)
(***************************************************************************)
RECURSIVE writeFields(_, _, _, _)
writeFields(buf, slice, k, m) ==
    IF k > m THEN buf
    ELSE writeFields(buf \o slice[k] \o <<Comma>>, slice, k + 1, m)

\* writeRecord with a comma after the last field too
writeRecord_CommaAfterLast(buf, slice) ==
    LET m == Len(slice) - 1
    IN  IF m < 0
        THEN Panic(ErrRuntime("slice bounds out of range"))
        ELSE NoPanic(writeFields(buf, slice, 1, m + 1) \o <<NL>>)

writeRecord(buf, slice) ==
    LET m == Len(slice) - 1
    IN  IF m < 0
        THEN Panic(ErrRuntime("slice bounds out of range"))
        ELSE NoPanic(writeFields(buf, slice, 1, m) \o slice[m + 1] \o <<NL>>)

(***************************************************************************)
(* The state of an encoder while it runs: the buffer, the calls made so    *)
(* far (the elements read and the methods called, by element index), and   *)
(* the panic that ended it, if one did.                                    *)
(***************************************************************************)
Start == [panic |-> FALSE, pval |-> NoErr, buf |-> <<>>, trace |-> <<>>]

Did(s, ev) == [s EXCEPT !.trace = Append(@, ev)]
Raise(s, e) == [s EXCEPT !.panic = TRUE, !.pval = e]

\* writeRecord(&buf, r.Header()) for the element at index i
writeHeaderOf(s, r, i) ==
    LET s1 == Did(s, <<"Header", i>>)
        h == Header(r)
        w == writeRecord(s.buf, h.val)
    IN  IF h.panic THEN Raise(s1, h.pval)
        ELSE IF w.panic THEN Raise(s1, w.pval)
        ELSE [s1 EXCEPT !.buf = w.val]

\* writeRecord(&buf, r.Record()) for the element at index i
writeRecordOf(s, r, i) ==
    LET s1 == Did(s, <<"Record", i>>)
        h == Record(r)
        w == writeRecord(s.buf, h.val)
    IN  IF h.panic THEN Raise(s1, h.pval)
        ELSE IF w.panic THEN Raise(s1, w.pval)
        ELSE [s1 EXCEPT !.buf = w.val]

(***************************************************************************)
(* marshalRecorder                                                         *)
(***************************************************************************)
\* marshalRecorder cutting both rows to the length of the shorter
marshalRecorder_Truncate(v) ==
    LET k == IF Len(v.header) < Len(v.record) THEN Len(v.header) ELSE Len(v.record)
        c == IF v.fault # "none" THEN v
             ELSE [v EXCEPT !.header = SubSeq(@, 1, k), !.record = SubSeq(@, 1, k)]
        s1 == writeHeaderOf(Start, c, 0)
    IN  IF s1.panic THEN s1 ELSE writeRecordOf(s1, c, 0)

marshalRecorder(v) ==
    LET s1 == writeHeaderOf(Start, v, 0)
    IN  IF s1.panic THEN s1 ELSE writeRecordOf(s1, v, 0)

(***************************************************************************)
(* marshalRecorderSlice.  Nothing recovers a panic here.                   *)
(***************************************************************************)
\* get(i): the type assertion panics on a nil interface value
recorderSliceGet(elems, i) ==
    LET x == elems[i + 1]
    IN  IF x.kind = "nil"
        THEN Panic(ErrRuntime("interface conversion: interface is nil"))
        ELSE NoPanic(x)

RECURSIVE recorderSliceLoop(_, _, _, _)

\* the loop writing the header of every element before its record
recorderSliceLoop_HeaderEach(s, elems, i, n) ==
    IF s.panic \/ ~(i < n) THEN s
    ELSE LET g == recorderSliceGet(elems, i)
             s1 == Did(s, <<"get", i>>)
             s2 == writeHeaderOf(s1, g.val, i)
         IN  IF g.panic THEN Raise(s1, g.pval)
             ELSE IF s2.panic THEN s2
             ELSE recorderSliceLoop(writeRecordOf(s2, g.val, i), elems, i + 1, n)

recorderSliceLoop(s, elems, i, n) ==
    IF s.panic \/ ~(i < n) THEN s
    ELSE LET g == recorderSliceGet(elems, i)
             s1 == Did(s, <<"get", i>>)
         IN  IF g.panic THEN Raise(s1, g.pval)
             ELSE recorderSliceLoop(writeRecordOf(s1, g.val, i), elems, i + 1, n)

\* marshalRecorderSlice without the test for n == 0: Index(0) panics
marshalRecorderSlice_NoEmptyCheck(v) ==
    LET n == Len(v.elems)
        g == recorderSliceGet(v.elems, 0)
        s0 == Did(Start, <<"get", 0>>)
        s1 == IF g.panic THEN Raise(s0, g.pval) ELSE writeHeaderOf(s0, g.val, 0)
        s2 == recorderSliceLoop(s1, v.elems, 0, n)
    IN  IF n = 0
        THEN Crash(ErrRuntime("index out of range"), "Homogeneous", <<<<"get", 0>>>>)
        ELSE IF s2.panic THEN Crash(s2.pval, "Homogeneous", s2.trace)
        ELSE Ret(s2.buf, NoErr, "Homogeneous", s2.trace)

marshalRecorderSlice(v) ==
    LET n == Len(v.elems)
        g == recorderSliceGet(v.elems, 0)
        s0 == Did(Start, <<"get", 0>>)
        s1 == IF g.panic THEN Raise(s0, g.pval) ELSE writeHeaderOf(s0, g.val, 0)
        s2 == recorderSliceLoop(s1, v.elems, 0, n)
    IN  IF n = 0 THEN Ret(NilBytes, ErrNoData, "Homogeneous", <<>>)
        ELSE IF s2.panic THEN Crash(s2.pval, "Homogeneous", s2.trace)
        ELSE Ret(s2.buf, NoErr, "Homogeneous", s2.trace)

(***************************************************************************)
(* marshalInterfaceSlice.  get panics with an error for an element that is *)
(* no Recorder or has another type than element 0; the deferred function   *)
(* turns every panic whose value is an error into the returned error, and  *)
(* the named result bs is still nil then.                                  *)
(***************************************************************************)
\* get without the comparison of the element's type with element 0's
interfaceSliceGet_NoTypeCheck(elems, t, i) ==
    LET x == elems[i + 1]
        ok == x.kind # "nil" /\ Implements(TypeOf(x), recorderType)
    IN  IF ~ok THEN Panic(ErrNotRecorder(TypeOf(x))) ELSE NoPanic(x)

\* get comparing the types before it asks for Recorder
interfaceSliceGet_TypeFirst(elems, t, i) ==
    LET x == elems[i + 1]
        ok == x.kind # "nil" /\ Implements(TypeOf(x), recorderType)
        rt == TypeOf(x)
    IN  IF rt # t THEN Panic(ErrExpecting(t, rt))
        ELSE IF ~ok THEN Panic(ErrNotRecorder(TypeOf(x)))
        ELSE NoPanic(x)

interfaceSliceGet(elems, t, i) ==
    LET x == elems[i + 1]
        ok == x.kind # "nil" /\ Implements(TypeOf(x), recorderType)
        rt == TypeOf(x)
    IN  IF ~ok THEN Panic(ErrNotRecorder(TypeOf(x)))
        ELSE IF rt # t THEN Panic(ErrExpecting(t, rt))
        ELSE NoPanic(x)

RECURSIVE interfaceSliceLoop(_, _, _, _, _)

\* the loop running while i <= n: Index(n) panics with a runtime error
interfaceSliceLoop_OneTooMany(s, elems, t, i, n) ==
    IF s.panic \/ ~(i <= n) THEN s
    ELSE IF i = n THEN Raise(Did(s, <<"get", i>>), ErrRuntime("index out of range"))
    ELSE LET g == interfaceSliceGet(elems, t, i)
             s1 == Did(s, <<"get", i>>)
         IN  IF g.panic THEN Raise(s1, g.pval)
             ELSE interfaceSliceLoop(writeRecordOf(s1, g.val, i), elems, t, i + 1, n)

interfaceSliceLoop(s, elems, t, i, n) ==
    IF s.panic \/ ~(i < n) THEN s
    ELSE LET g == interfaceSliceGet(elems, t, i)
             s1 == Did(s, <<"get", i>>)
         IN  IF g.panic THEN Raise(s1, g.pval)
             ELSE interfaceSliceLoop(writeRecordOf(s1, g.val, i), elems, t, i + 1, n)

\* r.(error) in the deferred function
IsError(p) == p # NotAnError

marshalInterfaceSlice(v) ==
    LET n == Len(v.elems)
        t == TypeOf(v.elems[1])
        g == interfaceSliceGet(v.elems, t, 0)
        s0 == Did(Did(Start, <<"get", 0>>), <<"get", 0>>)
        s1 == IF g.panic THEN Raise(s0, g.pval) ELSE writeHeaderOf(s0, g.val, 0)
        s2 == interfaceSliceLoop(s1, v.elems, t, 0, n)
    IN  IF n = 0 THEN Ret(NilBytes, ErrNoData, "Tagged", <<>>)
        ELSE IF s2.panic
        THEN IF IsError(s2.pval)
             THEN Ret(NilBytes, s2.pval, "Tagged", s2.trace)
             ELSE Crash(s2.pval, "Tagged", s2.trace)
        ELSE Ret(s2.buf, NoErr, "Tagged", s2.trace)

(***************************************************************************)
(* Marshal                                                                 *)
(***************************************************************************)
RECURSIVE Marshal(_)

\* the dispatch on the kind of a value with no capability of its own, with
\* unwrap telling whether a pointer is followed
MarshalByKind(v, unwrap) ==
    LET vt == TypeOf(v)
    IN  IF unwrap /\ Kind(vt) = "ptr"
        THEN IF v.isnil THEN Crash(ErrZeroValue, "none", <<>>) ELSE Marshal(v.elem)
        ELSE IF Kind(vt) \in {"slice", "array"}
        THEN IF Implements(Elem(vt), recorderType)
             THEN marshalRecorderSlice(v)
             ELSE IF Kind(Elem(vt)) = "interface"
             THEN marshalInterfaceSlice(v)
             ELSE Ret(NilBytes, ErrElemType(Elem(vt)), "none", <<>>)
        ELSE Ret(NilBytes, ErrCannotMarshal(vt), "none", <<>>)

\* Marshal asking for Recorder before Marshaler
Marshal_RecorderFirst(v) ==
    LET vt == TypeOf(v)
        m == MarshalCSV(v)
        r == marshalRecorder(v)
    IN  IF v.kind = "nil" THEN Crash(ErrNilType, "none", <<>>)
        ELSE IF Implements(vt, recorderType)
        THEN IF r.panic THEN Crash(r.pval, "Single", r.trace)
             ELSE Ret(r.buf, NoErr, "Single", r.trace)
        ELSE IF Implements(vt, marshalerType)
        THEN Ret(m.bs, m.err, "Direct", << <<"MarshalCSV", 0>> >>)
        ELSE MarshalByKind(v, TRUE)

\* Marshal that does not follow a pointer
Marshal_NoUnwrap(v) ==
    LET vt == TypeOf(v)
        m == MarshalCSV(v)
        r == marshalRecorder(v)
    IN  IF v.kind = "nil" THEN Crash(ErrNilType, "none", <<>>)
        ELSE IF Implements(vt, marshalerType)
        THEN Ret(m.bs, m.err, "Direct", << <<"MarshalCSV", 0>> >>)
        ELSE IF Implements(vt, recorderType)
        THEN IF r.panic THEN Crash(r.pval, "Single", r.trace)
             ELSE Ret(r.buf, NoErr, "Single", r.trace)
        ELSE MarshalByKind(v, FALSE)

Marshal(v) ==
    LET vt == TypeOf(v)
        m == MarshalCSV(v)
        r == marshalRecorder(v)
    IN  IF v.kind = "nil"
        THEN \* vt is the nil Type, and vt.Implements panics
             Crash(ErrNilType, "none", <<>>)
        ELSE IF Implements(vt, marshalerType)
        THEN Ret(m.bs, m.err, "Direct", << <<"MarshalCSV", 0>> >>)
        ELSE IF Implements(vt, recorderType)
        THEN IF r.panic THEN Crash(r.pval, "Single", r.trace)
             ELSE Ret(r.buf, NoErr, "Single", r.trace)
        ELSE IF Kind(vt) = "ptr"
        THEN IF v.isnil
             THEN \* Elem() of a nil pointer is the zero Value: Interface() panics
                  Crash(ErrZeroValue, "none", <<>>)
             ELSE Marshal(v.elem)
        ELSE IF Kind(vt) \in {"slice", "array"}
        THEN IF Implements(Elem(vt), recorderType)
             THEN marshalRecorderSlice(v)
             ELSE IF Kind(Elem(vt)) = "interface"
             THEN marshalInterfaceSlice(v)
             ELSE Ret(NilBytes, ErrElemType(Elem(vt)), "none", <<>>)
        ELSE Ret(NilBytes, ErrCannotMarshal(vt), "none", <<>>)

(***************************************************************************)
(* The arguments Marshal is called with.                                   *)
(***************************************************************************)
\* rows told apart by their length alone
ByLen(f, lo) == {Repeat(f, k) : k \in lo..MaxFields}

TopRows == RowsOver(Fields, 0, MaxFields)
HdrRows == ByLen(<<"h">>, 0)
RecRows == ByLen(<<"a">>, 0) \cup {<< <<NL>> >>}
ByteResults == {NilBytes, <<>>, <<"a", NL>>}

\* a nil pointer of a type with the Recorder methods
NilRecorder(t) == RecV(t, "nil", <<>>, <<>>)
\* a caller's Recorder whose methods panic with a value that is no error
Panicking == RecV(RecorderB, "panic", <<>>, <<>>)

Recorders ==
    {RecV(RecorderPtr, "none", h, r) : h \in TopRows, r \in TopRows}
        \cup {NilRecorder(RecorderPtr)}
Marshalers == {MarV(bs, e) : bs \in ByteResults, e \in {NoErr, UserErr}}
Boths ==
    {BothV(m.bs, m.err, h, r) :
        m \in Marshalers, h \in HdrRows, r \in ByLen(<<"a">>, 0)}

\* the elements of the modelled slices and arrays
ElemsA ==
    {RecV(RecorderPtr, "none", h, r) : h \in HdrRows, r \in RecRows}
        \cup {NilRecorder(RecorderPtr)}
ElemsB ==
    {RecV(RecorderB, "none", h, r) : h \in ByLen(<<"k">>, 1), r \in ByLen(<<"b">>, 1)}
        \cup {Panicking}
ElemBoth == BothV(<<"a", NL>>, NoErr, << <<"h">> >>, << <<"a">> >>)
ElemMar == MarV(<<"a", NL>>, NoErr)

\* the values an element of static type et can hold
ElemPool(et) ==
    CASE et = RecorderPtr -> ElemsA
      [] et = RecorderB -> ElemsB
      [] et = RecorderIface -> ElemsA \cup ElemsB \cup {ElemBoth, NilV}
      [] et = EmptyIface -> ElemsA \cup ElemsB \cup {ElemBoth, NilV, IntV, ElemMar}
      [] et = MarshalerIface -> {ElemBoth, ElemMar, NilV}
      [] et = MarshalerPtr -> {ElemMar}
      [] OTHER -> {IntV}

ElemTypes ==
    {RecorderPtr, RecorderB, RecorderIface, EmptyIface, MarshalerIface,
     MarshalerPtr, IntType}

SeqsOf(k, et, hi) ==
    {SeqV(k, et, es) : es \in UNION {[1..n -> ElemPool(et)] : n \in 0..hi}}

\* what the modelled pointers without methods point to
Pointees ==
    {IntV, ElemBoth, ElemMar} \cup ElemsA \cup ElemsB
        \cup UNION {SeqsOf("[]", et, 1) : et \in ElemTypes}

RECURSIVE Pointers(_)
Pointers(d) ==
    IF d = 0 THEN {}
    ELSE LET below == Pointers(d - 1)
             to == IF d = 1 THEN Pointees ELSE below
         IN  below
               \cup {PtrV(TypeOf(x), FALSE, x) : x \in to}
               \cup {PtrV(TypeOf(x), TRUE, NilV) : x \in to}
               \cup (IF d = 1
                     THEN {PtrV(RecorderIface, FALSE, x) :
                              x \in ElemsA \cup {ElemBoth, NilV}}
                            \cup {PtrV(EmptyIface, FALSE, x) :
                                     x \in {IntV, NilV, ElemMar}}
                     ELSE {})

Scalars == {NilV, IntV} \cup Recorders \cup Marshalers \cup Boths

(***************************************************************************)
(* The specification: a caller picks an argument and calls Marshal.        *)
(***************************************************************************)
\* result before the call returns
Pending == Ret(NilBytes, NoErr, "pending", <<>>)

\* input is a scalar, a pointer, a slice or an array of one element
IsInput(v) ==
    \/ v \in Scalars \cup Pointers(MaxDepth)
    \/ \E et \in ElemTypes : \E n \in 0..MaxLen : \E es \in [1..n -> ElemPool(et)] :
          v = SeqV("[]", et, es)
    \/ \E et \in ElemTypes : \E n \in 0..1 : \E es \in [1..n -> ElemPool(et)] :
          v = SeqV("[n]", et, es)

Init ==
    /\ IsInput(input)
    /\ pc = "call"
    /\ result = Pending

CallMarshal ==
    /\ pc = "call"
    /\ result' = Marshal(input)
    /\ pc' = "done"
    /\ UNCHANGED input

Next == CallMarshal

Spec == Init /\ [][Next]_vars

(***************************************************************************)
(* Vocabulary of the properties.                                           *)
(***************************************************************************)
Done == pc = "done"
Returned == Done /\ ~result.panic
Succeeded == Returned /\ result.err = NoErr
Failed == Returned /\ result.err # NoErr /\ result.bytes = NilBytes

\* the value the resolution ends on: input behind its pointers without methods
RECURSIVE Target(_)
Target(v) == IF v.kind = "ptr" /\ ~v.isnil THEN Target(v.elem) ELSE v

IsSeq(v) == v.kind = "seq"
IsRecorder(v) == v.kind # "nil" /\ Implements(TypeOf(v), recorderType)
IsMarshaler(v) == v.kind # "nil" /\ Implements(TypeOf(v), marshalerType)
\* a Recorder whose Header() and Record() return
HasRows(v) == IsRecorder(v) /\ v.fault = "none"

\* the two collection strategies, by the static element type
IsHomogeneous(v) == IsSeq(v) /\ Implements(Elem(TypeOf(v)), recorderType)
IsTagged(v) ==
    /\ IsSeq(v)
    /\ ~Implements(Elem(TypeOf(v)), recorderType)
    /\ Kind(Elem(TypeOf(v))) = "interface"

\* a row as the format defines it: the fields with one comma between each
\* two, then one newline
RECURSIVE JoinFields(_)
JoinFields(fs) ==
    IF Len(fs) = 0 THEN <<>>
    ELSE IF Len(fs) = 1 THEN fs[1]
    ELSE fs[1] \o <<Comma>> \o JoinFields(Tail(fs))

Row(fs) == JoinFields(fs) \o <<NL>>

\* the rows of the records of es[1..k], one after the other
RECURSIVE DataRows(_, _)
DataRows(es, k) == IF k = 0 THEN <<>> ELSE DataRows(es, k - 1) \o Row(es[k].record)

RECURSIVE CountNL(_)
CountNL(bs) ==
    IF bs = <<>> THEN 0 ELSE (IF Head(bs) = NL THEN 1 ELSE 0) + CountNL(Tail(bs))

HasNL(fs) == \E i \in 1..Len(fs) : \E j \in 1..Len(fs[i]) : fs[i][j] = NL

Calls(op) == {i \in 1..Len(result.trace) : result.trace[i][1] = op}

SameOutcome(a, b) ==
    a.panic = b.panic /\ a.pval = b.pval /\ a.bytes = b.bytes /\ a.err = b.err

(***************************************************************************)
(* C1.  A value that is a Marshaler and a Recorder is encoded by its       *)
(* MarshalCSV: Marshal returns the bytes and the error MarshalCSV returns, *)
(* and calls neither Header nor Record.                                    *)
(***************************************************************************)
C1_DirectPrecedence ==
    (Done /\ IsMarshaler(input) /\ IsRecorder(input)) =>
        /\ ~result.panic
        /\ result.bytes = input.bs
        /\ result.err = input.err
        /\ Calls("Header") = {} /\ Calls("Record") = {}

C1_Witness ==
    /\ Done
    /\ input.kind = "both"
    /\ Len(input.header) = 2 /\ Len(input.record) = 2
    /\ result.bytes = <<"a", NL>>
    /\ result.err = UserErr

(***************************************************************************)
(* C2.  As claimed: for every Recorder whose Header() and Record() have at *)
(* least one field each, Marshal succeeds with the header row and then the *)
(* record row, fields joined by commas, rows ended by a newline, nothing   *)
(* quoted.                                                                 *)
(***************************************************************************)
C2_Original ==
    (Done /\ HasRows(input) /\ Len(input.header) >= 1 /\ Len(input.record) >= 1) =>
        /\ Succeeded
        /\ result.bytes = Row(input.header) \o Row(input.record)

(***************************************************************************)
(* C2, amended.  The same for every Recorder that is not also a Marshaler. *)
(***************************************************************************)
C2_TwoRows ==
    (/\ Done
     /\ HasRows(input) /\ ~IsMarshaler(input)
     /\ Len(input.header) >= 1 /\ Len(input.record) >= 1) =>
        /\ Succeeded
        /\ result.bytes = Row(input.header) \o Row(input.record)

C2_Witness ==
    /\ Done
    /\ input.kind = "rec"
    /\ input.header = << <<"a">>, <<Comma>> >>
    /\ input.record = << <<NL>>, <<>> >>
    /\ result.err = NoErr
    /\ result.bytes = <<"a", Comma, Comma, NL, NL, Comma, NL>>

(***************************************************************************)
(* C8.  As claimed: for every Recorder whose Header() and Record() differ  *)
(* in length, the Single-Record strategy does not panic and returns bytes  *)
(* and no error.                                                           *)
(***************************************************************************)
C8_Original ==
    (/\ Done
     /\ HasRows(input) /\ ~IsMarshaler(input)
     /\ Len(input.header) # Len(input.record)) =>
        Succeeded /\ result.bytes # NilBytes

(***************************************************************************)
(* C8, amended.  For every Recorder whose Header() and Record() differ in  *)
(* length and have at least one field each, the Single-Record strategy     *)
(* does not panic: it returns no error and the two rows, each with its own *)
(* number of fields.                                                       *)
(***************************************************************************)
C8_MismatchNoCrash ==
    (/\ Done
     /\ HasRows(input) /\ ~IsMarshaler(input)
     /\ Len(input.header) # Len(input.record)
     /\ Len(input.header) >= 1 /\ Len(input.record) >= 1) =>
        /\ Succeeded
        /\ result.via = "Single"
        /\ result.bytes = Row(input.header) \o Row(input.record)

C8_Witness ==
    /\ Done
    /\ input.kind = "rec"
    /\ Len(input.header) = 2 /\ Len(input.record) = 1
    /\ Succeeded
    /\ CountNL(result.bytes) >= 2

(***************************************************************************)
(* C10.  Marshal of a non-nil pointer whose type has neither capability is *)
(* Marshal of what it points to, so the strategy is that of the value      *)
(* behind the pointers; a pointer whose type has a capability is encoded   *)
(* by that capability, itself.                                             *)
(***************************************************************************)
StrategyOf(v) ==
    IF IsMarshaler(v) THEN "Direct"
    ELSE IF IsRecorder(v) THEN "Single"
    ELSE IF IsHomogeneous(v) THEN "Homogeneous"
    ELSE IF IsTagged(v) THEN "Tagged"
    ELSE "none"

C10_PointerUnwrap ==
    /\ (Done /\ input.kind = "ptr" /\ ~input.isnil) =>
          /\ SameOutcome(result, Marshal(input.elem))
          /\ result.via = StrategyOf(Target(input))
    /\ (Done /\ Kind(TypeOf(input)) = "ptr" /\ (IsMarshaler(input) \/ IsRecorder(input))) =>
          /\ result.via = StrategyOf(input)
          /\ result.trace # <<>>
          /\ result.trace[1] =
                IF IsMarshaler(input) THEN <<"MarshalCSV", 0>> ELSE <<"Header", 0>>

C10_Witness ==
    /\ Done
    /\ input.kind = "ptr" /\ ~input.isnil
    /\ input.elem.kind = "ptr" /\ ~input.elem.isnil
    /\ IsSeq(input.elem.elem) /\ Len(input.elem.elem.elems) = 1
    /\ Succeeded
    /\ result.via = "Homogeneous"

(***************************************************************************)
(* Vocabulary of the collection properties.  Elements are numbered from 1  *)
(* here and from 0 in the code.                                            *)
(***************************************************************************)
Min(S) == CHOOSE x \in S : \A y \in S : x <= y

Idx(v) == 1..Len(v.elems)

\* every element is a Recorder whose rows have the same length
EqualLengthPairs(v) ==
    \A i \in Idx(v) :
        HasRows(v.elems[i]) /\ Len(v.elems[i].header) = Len(v.elems[i].record)

\* every element has one and the same concrete type, a Recorder
OneRecorderType(v) ==
    \A i \in Idx(v) :
        IsRecorder(v.elems[i]) /\ TypeOf(v.elems[i]) = TypeOf(v.elems[1])

\* two elements are Recorders of different concrete types
MixedRecorders(v) ==
    \E i, j \in Idx(v) :
        /\ IsRecorder(v.elems[i]) /\ IsRecorder(v.elems[j])
        /\ TypeOf(v.elems[i]) # TypeOf(v.elems[j])

\* the elements the Tagged-Collection strategy rejects
Offending(v) ==
    {i \in Idx(v) : ~IsRecorder(v.elems[i]) \/ TypeOf(v.elems[i]) # TypeOf(v.elems[1])}

\* the elements before element j that have a row that cannot be written:
\* the header of the first element and the records of the elements before j
\* are written, and a row is written when its method returns (the receiver
\* is not nil and the method does not panic) and it has at least one field
Unwritten(v, j) ==
    {k \in 1..(j - 1) :
        \/ ~HasRows(v.elems[k])
        \/ Len(v.elems[k].record) = 0
        \/ k = 1 /\ Len(v.elems[k].header) = 0}

RowsWrittenBefore(v, j) == Unwritten(v, j) = {}

\* the outcome of the Tagged-Collection strategy when the row of element k
\* cannot be written: a panic whose value is an error is recovered and
\* returned, and any other panic goes on
StoppedAtRow(v, k) ==
    IF v.elems[k].fault = "panic"
    THEN result.panic /\ result.pval = NotAnError
    ELSE Failed /\ result.err.name = ErrRuntime("").name

\* the same elements held with static element type et
HeldAs(v, et) == SeqV(Head(TypeOf(v)), et, v.elems)

HeaderCalls == {result.trace[i] : i \in Calls("Header")}

(***************************************************************************)
(* C3.  As claimed: for a non-empty sequence of n Recorders with rows of   *)
(* equal length, the Homogeneous-Collection output has exactly n + 1       *)
(* lines, the header row of the first element and then the record row of   *)
(* every element in order; no other header is read.                        *)
(***************************************************************************)
C3_Original ==
    LET T == Target(input)
        n == Len(T.elems)
    IN  (Done /\ IsHomogeneous(T) /\ n >= 1 /\ EqualLengthPairs(T)) =>
            /\ Succeeded
            /\ result.bytes = Row(T.elems[1].header) \o DataRows(T.elems, n)
            /\ CountNL(result.bytes) = n + 1
            /\ HeaderCalls = {<<"Header", 0>>}

(***************************************************************************)
(* C3, amended.  The same when every row has at least one field: the       *)
(* output is the n + 1 rows, and it has exactly n + 1 lines when no field  *)
(* written holds a newline.                                                *)
(***************************************************************************)
C3_HeaderOnce ==
    LET T == Target(input)
        n == Len(T.elems)
    IN  (/\ Done /\ IsHomogeneous(T) /\ n >= 1 /\ EqualLengthPairs(T)
         /\ \A i \in Idx(T) : Len(T.elems[i].record) >= 1) =>
            /\ Succeeded
            /\ result.bytes = Row(T.elems[1].header) \o DataRows(T.elems, n)
            /\ HeaderCalls = {<<"Header", 0>>}
            /\ (~HasNL(T.elems[1].header) /\ \A i \in Idx(T) : ~HasNL(T.elems[i].record))
                  => CountNL(result.bytes) = n + 1

C3_Witness ==
    /\ Done
    /\ IsHomogeneous(input) /\ Len(input.elems) = 2 /\ EqualLengthPairs(input)
    /\ Len(input.elems[1].header) = 1 /\ Len(input.elems[2].header) = 2
    /\ Succeeded
    /\ result.bytes = <<"h", NL, "a", NL, "a", Comma, "a", NL>>

(***************************************************************************)
(* C4.  As claimed: elements of one concrete Recorder type give the same   *)
(* outcome held in a Tagged-Collection and held in a Homogeneous-          *)
(* Collection.  Stated for elements whose Header() and Record() return.    *)
(***************************************************************************)
C4_Original ==
    LET T == Target(input)
    IN  (/\ Done /\ IsTagged(T) /\ OneRecorderType(T)
         /\ \A i \in Idx(T) : HasRows(T.elems[i])) =>
            \A et \in {RecorderIface} \cup {TypeOf(T.elems[i]) : i \in Idx(T)} :
                SameOutcome(result, Marshal(HeldAs(T, et)))

(***************************************************************************)
(* C4, amended.  The outcomes are the same, except that where the          *)
(* Homogeneous-Collection encoding panics with a value that is an error    *)
(* (a row of no fields, a method of a nil pointer), the Tagged-Collection  *)
(* encoding returns that error and no bytes.                               *)
(***************************************************************************)
C4_TaggedAsHomogeneous ==
    LET T == Target(input)
    IN  (Done /\ IsTagged(T) /\ OneRecorderType(T)) =>
            \A et \in {RecorderIface} \cup {TypeOf(T.elems[i]) : i \in Idx(T)} :
                LET h == Marshal(HeldAs(T, et))
                IN  /\ h.via = "Homogeneous"
                    /\ IF h.panic /\ IsError(h.pval)
                       THEN Failed /\ result.err = h.pval
                       ELSE SameOutcome(result, h)

C4_Witness ==
    /\ Done
    /\ IsTagged(input) /\ Len(input.elems) = 2 /\ OneRecorderType(input)
    /\ TypeOf(input.elems[1]) = RecorderB
    /\ Succeeded
    /\ result.bytes = Marshal(HeldAs(input, RecorderB)).bytes
    /\ CountNL(result.bytes) = 3

(***************************************************************************)
(* C5.  As claimed: a sequence whose static element type is an interface   *)
(* type and that holds Recorders of two different concrete types fails     *)
(* with the heterogeneous-element-type error and no bytes; equivalently,   *)
(* in the claim's words, whenever Marshal succeeds on a sequence with an   *)
(* interface element type every element has the type of element 0.  The    *)
(* second form is the one stated here.                                     *)
(***************************************************************************)
C5_Original ==
    LET T == Target(input)
    IN  (Succeeded /\ IsSeq(T) /\ Kind(Elem(TypeOf(T))) = "interface") =>
            \A i \in Idx(T) : TypeOf(T.elems[i]) = TypeOf(T.elems[1])

(***************************************************************************)
(* C5, amended.  A sequence whose static element type is an interface type *)
(* that does not implement Recorder and that holds Recorders of two        *)
(* different concrete types gives no bytes and does not succeed.  When the *)
(* rows before the first element whose type differs from element 0's were  *)
(* written, Marshal fails, and with the heterogeneous-element-type error,  *)
(* naming the two types, when that element is a Recorder; a row before it  *)
(* that cannot be written ends Marshal first.  When Marshal succeeds on a   *)
(* sequence of this strategy every element has the type of element 0.  A   *)
(* sequence whose static element type is an interface that implements      *)
(* Recorder goes to the Homogeneous-Collection strategy, which compares no  *)
(* types.                                                                  *)
(***************************************************************************)
C5_Heterogeneous ==
    LET T == Target(input)
        j == Min(Offending(T))
    IN  /\ (Done /\ IsTagged(T) /\ MixedRecorders(T)) =>
              /\ ~Succeeded /\ result.bytes = NilBytes
              /\ IF RowsWrittenBefore(T, j)
                 THEN /\ Failed
                      /\ IsRecorder(T.elems[j]) =>
                            result.err =
                                ErrExpecting(TypeOf(T.elems[1]), TypeOf(T.elems[j]))
                 ELSE StoppedAtRow(T, Min(Unwritten(T, j)))
        /\ (Succeeded /\ IsTagged(T)) =>
              \A i \in Idx(T) : TypeOf(T.elems[i]) = TypeOf(T.elems[1])
        /\ (Done /\ IsHomogeneous(T) /\ MixedRecorders(T)) =>
              /\ result.via = "Homogeneous"
              /\ result.err.name # ErrExpecting(<<>>, <<>>).name

C5_Witness ==
    /\ Done
    /\ IsTagged(input) /\ Len(input.elems) = 2
    /\ TypeOf(input.elems[1]) = RecorderPtr /\ TypeOf(input.elems[2]) = RecorderB
    /\ result.err = ErrExpecting(RecorderPtr, RecorderB)
    /\ result.bytes = NilBytes

(***************************************************************************)
(* C6.  An empty slice or array that goes to either collection strategy    *)
(* gives the error "csv: no data" and nil bytes, and no element is read.   *)
(***************************************************************************)
C6_EmptyCollection ==
    LET T == Target(input)
    IN  (Done /\ (IsHomogeneous(T) \/ IsTagged(T)) /\ Len(T.elems) = 0) =>
            /\ ~result.panic
            /\ result.err = ErrNoData
            /\ result.bytes = NilBytes
            /\ result.trace = <<>>

C6_Witness ==
    /\ Done
    /\ input = SeqV("[n]", EmptyIface, <<>>)
    /\ result.err = ErrNoData
    /\ result.via = "Tagged"

(***************************************************************************)
(* C7.  As claimed: Marshal returns for every argument, with bytes or with *)
(* one of the named failures, except that it may panic when the row writer *)
(* receives a row of no fields.                                            *)
(***************************************************************************)
NamedFailures ==
    {ErrCannotMarshal(<<>>).name, ErrElemType(<<>>).name, ErrNoData.name,
     ErrNotRecorder(<<>>).name, ErrExpecting(<<>>, <<>>).name}

\* the last call made is a Header() or Record() that returned no fields
WroteEmptyRow ==
    LET T == Target(input)
        ev == result.trace[Len(result.trace)]
        w == IF IsSeq(T) THEN T.elems[ev[2] + 1] ELSE T
    IN  /\ result.trace # <<>>
        /\ ev[1] \in {"Header", "Record"}
        /\ HasRows(w)
        /\ Len(IF ev[1] = "Header" THEN w.header ELSE w.record) = 0

C7_AlwaysReturns ==
    Done =>
        \/ WroteEmptyRow
        \/ /\ ~result.panic
           /\ \/ result.err = NoErr
              \/ result.err.name \in NamedFailures
              \/ result.via = "Direct"

(***************************************************************************)
(* C9.  As claimed: the Tagged-Collection strategy fails on the first      *)
(* element, in index order, that is no Recorder or has another type than   *)
(* element 0, with ElementNotRecordEncodable when it is no Recorder and    *)
(* with HeterogeneousElementType otherwise, and returns no bytes.  Stated   *)
(* for sequences in which Header() and Record() of the elements before     *)
(* that one return.                                                        *)
(***************************************************************************)
C9_Original ==
    LET T == Target(input)
        j == Min(Offending(T))
    IN  (/\ Done /\ IsTagged(T) /\ Offending(T) # {}
         /\ \A k \in 1..(j - 1) : HasRows(T.elems[k])) =>
            /\ Failed
            /\ result.err =
                  IF ~IsRecorder(T.elems[j])
                  THEN ErrNotRecorder(TypeOf(T.elems[j]))
                  ELSE ErrExpecting(TypeOf(T.elems[1]), TypeOf(T.elems[j]))

(***************************************************************************)
(* C9, amended.  The same when the rows before that element were written   *)
(* (the header of element 0 and the records before it have a field and     *)
(* their methods return); a row before it that cannot be written ends      *)
(* Marshal first, with the recovered runtime error as the failure, or with *)
(* the panic of the method when its value is no error.  The elements are   *)
(* read in index order, and nothing returns bytes together with a failure. *)
(***************************************************************************)
C9_FirstOffender ==
    LET T == Target(input)
        j == Min(Offending(T))
        gets == SelectSeq(result.trace, LAMBDA e : e[1] = "get")
    IN  /\ (Done /\ IsTagged(T) /\ Offending(T) # {}) =>
              /\ result.bytes = NilBytes
              /\ IF RowsWrittenBefore(T, j)
                 THEN /\ Failed
                      /\ result.err =
                            IF ~IsRecorder(T.elems[j])
                            THEN ErrNotRecorder(TypeOf(T.elems[j]))
                            ELSE ErrExpecting(TypeOf(T.elems[1]), TypeOf(T.elems[j]))
                      /\ gets[Len(gets)] = <<"get", j - 1>>
                 ELSE StoppedAtRow(T, Min(Unwritten(T, j)))
        /\ (Done /\ IsTagged(T)) =>
              /\ \A k \in 1..(Len(gets) - 1) : gets[k][2] <= gets[k + 1][2]
              /\ result.err # NoErr => result.bytes = NilBytes

C9_Witness ==
    /\ Done
    /\ IsTagged(input) /\ Len(input.elems) = 2
    /\ HasRows(input.elems[1]) /\ Len(input.elems[1].header) = 2
    /\ input.elems[2] = ElemMar
    /\ result.err = ErrNotRecorder(MarshalerPtr)
    /\ result.bytes = NilBytes

====
